---- MODULE Spec2Model ----
(***************************************************************************)
(* Model of app.py, the design-asset text translator: text normalisation,  *)
(* the noise filter, the OCR correction map, glossary loading and lookup,  *)
(* the translation resolver and the upload pipeline.                       *)
(*                                                                         *)
(* A Python str is modelled as a sequence of one-character strings.  Text  *)
(* produced by an external collaborator (a translation, an exception's     *)
(* description) is a sequence of opaque tokens.                            *)
(***************************************************************************)
EXTENDS Integers, Sequences, FiniteSets, TLC

VARIABLES
    mode,          \* which part of the program the behaviour exercises
    nt_base,       \* normalize_text: the string first drawn
    nt_text,       \* normalize_text: the string as edited so far
    nt_applied,    \* normalize_text: TRUE once nt_text is a value it returned
    glossary_file, \* the uploaded glossary CSV (NoFile when none was uploaded)
    glossary_map,  \* the dict glossary_map, in insertion order
    ui,            \* what the page has shown so far, in order
    pc,            \* the statement the script has reached
    lk_query,      \* lookup_glossary: the text looked up
    lk_scores,     \* lookup_glossary: the scores process.extractOne computed
    lk_result,     \* lookup_glossary: what it returned
    texts,         \* ocr_extract_strings: the lines reader.readtext returned
    cleaned,       \* ocr_extract_strings: the list cleaned
    seen,          \* ocr_extract_strings: the set seen
    ci,            \* ocr_extract_strings: the lines the loop has taken
    strings,       \* translate_text_list: the argument texts
    targets,       \* translate_text_list: the argument targets
    results,       \* translate_text_list: the dict results
    ti,            \* translate_text_list: the strings the loop has taken
    lookups,       \* the calls of lookup_glossary made so far, with what each returned
    mt_calls,      \* the calls of GoogleTranslator(...).translate made so far
    raised,        \* TRUE once an exception has left translate_text_list
    target_langs,  \* the codes selected in the multiselect, in selection order
    uploaded,      \* whether an image was uploaded
    df,            \* the table df, column by column in header order
    storage        \* the files written under ./storage

normVars == <<nt_base, nt_text, nt_applied>>
glossVars == <<glossary_file, glossary_map>>
lookupVars == <<lk_query, lk_scores, lk_result>>
cleanVars == <<texts, cleaned, seen, ci>>
transVars == <<strings, targets, results, ti, lookups, mt_calls, raised>>
pipeVars == <<target_langs, uploaded, df, storage>>

vars == <<mode, pc, ui, normVars, glossVars, lookupVars, cleanVars, transVars, pipeVars>>

-----------------------------------------------------------------------------
(* Characters.  The classes are those of Python's re module on ASCII text. *)

UpperLetters == {"A", "B", "P"}
LowerLetters == {"a", "b", "l", "p", "y", "o", "k"}
Digits == {"0", "1", "2", "4"}
Whitespace == {" "}

\* str.isalpha on one character
IsAlpha(c) == c \in UpperLetters \cup LowerLetters

\* \w : letters, digits and the underscore
IsWord(c) == IsAlpha(c) \/ c \in Digits \/ c = "_"

\* \s
IsSpace(c) == c \in Whitespace

\* str.lower on one character
LowerChar(c) ==
    CASE c = "A" -> "a"
      [] c = "B" -> "b"
      [] c = "P" -> "p"
      [] OTHER -> c

\* str.lower
Lower(s) == [i \in 1..Len(s) |-> LowerChar(s[i])]

\* str.strip : leading and trailing whitespace removed
Strip(s) ==
    LET solid == {i \in 1..Len(s) : ~IsSpace(s[i])}
    IN  IF solid = {} THEN <<>>
        ELSE SubSeq(s, CHOOSE i \in solid : \A j \in solid : i <= j,
                       CHOOSE i \in solid : \A j \in solid : i >= j)

\* re.sub(r"[^\w\s]", "", text)
DropPunctuation(s) == SelectSeq(s, LAMBDA c : IsWord(c) \/ IsSpace(c))

\* re.sub(r"\s+", " ", text) : every maximal run of whitespace becomes one space
RECURSIVE CollapseFrom(_, _)
CollapseFrom(s, i) ==
    IF i > Len(s) THEN <<>>
    ELSE IF ~IsSpace(s[i]) THEN <<s[i]>> \o CollapseFrom(s, i + 1)
    ELSE IF i > 1 /\ IsSpace(s[i - 1]) THEN CollapseFrom(s, i + 1)
    ELSE <<" ">> \o CollapseFrom(s, i + 1)

CollapseSpaces(s) == CollapseFrom(s, 1)

\* normalize_text with the two substitutions in the wrong order
normalize_text_collapse_first(text) ==
    DropPunctuation(Strip(CollapseSpaces(Lower(text))))

\* normalize_text: lowercase, remove punctuation, collapse spaces
normalize_text(text) ==
    Strip(CollapseSpaces(DropPunctuation(Lower(text))))


-----------------------------------------------------------------------------
(* Python values *)

\* a dict in insertion order: a sequence of [k, v] with no key twice
DictHas(d, k) == \E i \in 1..Len(d) : d[i].k = k

DictGet(d, k) == d[CHOOSE i \in 1..Len(d) : d[i].k = k].v

\* d[k] = v : a key already there keeps its place
DictSet(d, k, v) ==
    IF DictHas(d, k)
    THEN [i \in 1..Len(d) |-> IF d[i].k = k THEN [k |-> k, v |-> v] ELSE d[i]]
    ELSE Append(d, [k |-> k, v |-> v])

\* list(d.keys())
DictKeys(d) == [i \in 1..Len(d) |-> d[i].k]

\* sep.join(parts)
RECURSIVE Join(_, _)
Join(parts, sep) ==
    IF Len(parts) = 0 THEN <<>>
    ELSE IF Len(parts) = 1 THEN <<parts[1]>>
    ELSE <<parts[1], sep>> \o Join(Tail(parts), sep)

\* f"{n}" for a small n
Decimal(n) == <<"0", "1", "2", "3", "4", "5", "6", "7", "8", "9">>[n + 1]

\* an optional value: None, or Some(x)
None == [found |-> FALSE, entry |-> <<>>]
Some(x) == [found |-> TRUE, entry |-> x]

-----------------------------------------------------------------------------
(* Glossary loading *)

expected_cols == <<"EN", "ID", "JA", "KO", "MS", "TH", "VI", "ZH">>

ExpectedColSet == {expected_cols[i] : i \in 1..Len(expected_cols)}

NoFile == [uploaded |-> FALSE]

\* the rows of a CSV as pd.read_csv(...).fillna("") gives them
GlossaryRow(en, id, zh) ==
    [c \in ExpectedColSet |->
        IF c = "EN" THEN en ELSE IF c = "ID" THEN id ELSE IF c = "ZH" THEN zh ELSE <<>>]

ReadableFile(rows) ==
    [uploaded |-> TRUE, readable |-> TRUE, columns |-> ExpectedColSet, rows |-> rows]

\* missing = [c for c in expected_cols if c not in gdf.columns]
MissingColumns(columns) == SelectSeq(expected_cols, LAMBDA c : c \notin columns)

\* key = str(row["EN"]).strip().lower()
RowKey(row) == Lower(Strip(row["EN"]))

\* for _, row in gdf.iterrows(): ... glossary_map[key] = {col: str(row[col]) ...}
RECURSIVE LoadRows(_, _)
LoadRows(map, rows) ==
    IF rows = <<>> THEN map
    ELSE LET key == RowKey(Head(rows))
         IN  LoadRows(IF key # <<>> THEN DictSet(map, key, Head(rows)) ELSE map,
                      Tail(rows))

\* the glossary expander reporting missing columns and loading the rows all the same
GlossaryLoadDespiteMissing(file) ==
    IF ~file.uploaded THEN [map |-> <<>>, shown |-> <<>>]
    ELSE IF ~file.readable
    THEN [map |-> <<>>,
          shown |-> <<[kind |-> "error", text |-> <<"Failed to read glossary: ", "e">>]>>]
    ELSE LET full == [i \in 1..Len(file.rows) |->
                        [c \in ExpectedColSet |->
                            IF c \in file.columns THEN file.rows[i][c] ELSE <<>>]]
             map == LoadRows(<<>>, full)
         IN  IF MissingColumns(file.columns) # <<>>
             THEN [map |-> map,
                   shown |-> <<[kind |-> "error",
                                text |-> <<"Glossary missing columns: ">>
                                         \o Join(MissingColumns(file.columns), ", ")]>>]
             ELSE [map |-> map,
                   shown |-> <<[kind |-> "success",
                                text |-> <<"Loaded glossary with ", Decimal(Len(map)),
                                           " entries.">>]>>]

\* the glossary expander, lines 39-56: [map, shown]
GlossaryLoad(file) ==
    IF ~file.uploaded THEN [map |-> <<>>, shown |-> <<>>]
    ELSE IF ~file.readable
    THEN [map |-> <<>>,
          shown |-> <<[kind |-> "error", text |-> <<"Failed to read glossary: ", "e">>]>>]
    ELSE IF MissingColumns(file.columns) # <<>>
    THEN [map |-> <<>>,
          shown |-> <<[kind |-> "error",
                       text |-> <<"Glossary missing columns: ">>
                                \o Join(MissingColumns(file.columns), ", ")]>>]
    ELSE LET map == LoadRows(<<>>, file.rows)
         IN  [map |-> map,
              shown |-> <<[kind |-> "success",
                           text |-> <<"Loaded glossary with ", Decimal(Len(map)),
                                      " entries.">>]>>]

-----------------------------------------------------------------------------
(* Glossary lookup *)

Threshold == 90

\* the scores the similarity scorer may give a candidate
ScoreLevels == {0, 89, 90, 100}

\* norm_map = {normalize_text(k): v for k, v in glossary.items()}
RECURSIVE NormMapFrom(_, _)
NormMapFrom(map, items) ==
    IF items = <<>> THEN map
    ELSE NormMapFrom(DictSet(map, normalize_text(Head(items).k), Head(items).v),
                     Tail(items))

NormMap(glossary) == NormMapFrom(<<>>, glossary)

\* process.extractOne(nkey, choices): the first choice with the highest score
ExtractOne(choices, scores) ==
    LET best == CHOOSE i \in 1..Len(choices) :
                    /\ \A j \in 1..Len(choices) : scores[j] <= scores[i]
                    /\ \A j \in 1..(i - 1) : scores[j] < scores[i]
    IN  [match |-> choices[best], score |-> scores[best]]

\* whether lookup_glossary reaches process.extractOne, which scores every choice
Scores(english_text, glossary) ==
    /\ glossary # <<>>
    /\ ~DictHas(NormMap(glossary), normalize_text(english_text))

\* the score lists process.extractOne may compute for a call
ScoreLists(english_text, glossary) ==
    IF Scores(english_text, glossary)
    THEN [1..Len(NormMap(glossary)) -> ScoreLevels]
    ELSE {<<>>}

\* lookup_glossary with a strict comparison against the threshold
lookup_glossary_strict(english_text, glossary, threshold, scores) ==
    IF glossary = <<>> THEN None
    ELSE LET norm_map == NormMap(glossary)
             nkey == normalize_text(english_text)
         IN  IF DictHas(norm_map, nkey) THEN Some(DictGet(norm_map, nkey))
             ELSE LET found == ExtractOne(DictKeys(norm_map), scores)
                  IN  IF found.score > threshold
                      THEN Some(DictGet(norm_map, found.match))
                      ELSE None

\* lookup_glossary: normalized exact match, then fuzzy match
lookup_glossary(english_text, glossary, threshold, scores) ==
    IF glossary = <<>> THEN None
    ELSE LET norm_map == NormMap(glossary)
             nkey == normalize_text(english_text)
         IN  IF DictHas(norm_map, nkey) THEN Some(DictGet(norm_map, nkey))
             ELSE LET found == ExtractOne(DictKeys(norm_map), scores)
                  IN  IF found.score >= threshold
                      THEN Some(DictGet(norm_map, found.match))
                      ELSE None

-----------------------------------------------------------------------------
(* OCR corrections and extraction-time cleanup *)

\* CORRECTION_MAP.get(ch, ch)
CORRECTION_MAP(ch) == IF ch = "l" THEN "!" ELSE ch

\* apply_corrections
apply_corrections(text) == [i \in 1..Len(text) |-> CORRECTION_MAP(text[i])]

\* the cleanup loop's body with the stripped line, not the corrected one, as the key
CleanLineKeyedBeforeCorrection(st, t) ==
    LET s == apply_corrections(Strip(t))
    IN  IF s # <<>> /\ Strip(t) \notin st.seen
        THEN [cleaned |-> Append(st.cleaned, s), seen |-> st.seen \cup {Strip(t)}]
        ELSE st

\* the cleanup loop's body, lines 181-184, on st = [cleaned, seen]
CleanLine(st, t) ==
    LET s == apply_corrections(Strip(t))
    IN  IF s # <<>> /\ s \notin st.seen
        THEN [cleaned |-> Append(st.cleaned, s), seen |-> st.seen \cup {s}]
        ELSE st

\* the cleanup loop, lines 178-185
RECURSIVE CleanAll(_, _)
CleanAll(st, lines) ==
    IF lines = <<>> THEN st ELSE CleanAll(CleanLine(st, Head(lines)), Tail(lines))

-----------------------------------------------------------------------------
(* The noise filter and the translation resolver *)

\* should_translate without the test of the stripped length
should_translate_no_length_test(text) ==
    ~(/\ Len(text) >= 1
      /\ \A i \in 1..Len(text) : text[i] \in Digits \/ ~IsWord(text[i]) \/ text[i] = "_")

\* should_translate: False for a stripped length <= 1 and for a full match of
\* [0-9\W_]+
should_translate(text) ==
    IF Len(Strip(text)) <= 1 THEN FALSE
    ELSE IF /\ Len(text) >= 1
            /\ \A i \in 1..Len(text) :
                  text[i] \in Digits \/ ~IsWord(text[i]) \/ text[i] = "_"
    THEN FALSE
    ELSE TRUE

language_options == <<"ID", "JA", "KO", "MS", "TH", "VI", "ZH">>

\* TARGET_CODE_MAP[code]
TARGET_CODE_MAP(code) ==
    CASE code = "ID" -> "id"
      [] code = "JA" -> "ja"
      [] code = "KO" -> "ko"
      [] code = "MS" -> "ms"
      [] code = "TH" -> "th"
      [] code = "VI" -> "vi"
      [] code = "ZH" -> "zh-CN"

\* what the translation collaborator gives for a call
MTOutcomes == {[ok |-> TRUE, e |-> "-"], [ok |-> FALSE, e |-> "timed out"]}

\* the string GoogleTranslator(source, target).translate(text) returns
GoogleTranslate(text, source, target) == <<source, ">", target, ":">> \o text

\* f"[Translation error: {e}]"
ErrorMarker(e) == <<"[Translation error: ", e, "]">>

Range(seq) == {seq[i] : i \in 1..Len(seq)}

\* results[code].append(x)
AppendTo(st, code, x) ==
    [st EXCEPT !.results = [@ EXCEPT ![code] = Append(@, x)]]

\* the noise branch dropping the string instead of keeping it
PassThroughDropped(st, base, codes) == st

\* for code in targets: results[code].append(base), lines 141-142
RECURSIVE PassThrough(_, _, _)
PassThrough(st, base, codes) ==
    IF codes = <<>> THEN st
    ELSE PassThrough(AppendTo(st, Head(codes), base), base, Tail(codes))

\* the override test taking any glossary match, whatever its value for the code
UseOverrideAnyMatch(gmatch, code) == gmatch.found

\* gmatch and gmatch.get(code, ""), line 148
UseOverride(gmatch, code) == gmatch.found /\ gmatch.entry[code] # <<>>

\* the failure of a translation call left uncaught
OnTranslationFailureUncaught(st, code, e) == [st EXCEPT !.raised = TRUE]

\* except Exception as e: results[code].append(f"[Translation error: {e}]")
OnTranslationFailure(st, code, e) == AppendTo(st, code, ErrorMarker(e))

\* the try block, lines 152-157, for one cell
TranslateCell(st, i, base, code, outcome) ==
    LET tgt == TARGET_CODE_MAP(code)
        called == [st EXCEPT !.mt_calls =
                      Append(@, [i |-> i, code |-> code, text |-> base, source |-> "en",
                                 target |-> tgt, ok |-> outcome.ok, e |-> outcome.e])]
    IN  IF outcome.ok
        THEN AppendTo(called, code, GoogleTranslate(base, "en", tgt))
        ELSE OnTranslationFailure(called, code, outcome.e)

\* for code in targets, lines 147-157
RECURSIVE CodesLoop(_, _, _, _, _, _)
CodesLoop(st, i, base, gmatch, codes, outcomes) ==
    IF codes = <<>> \/ st.raised THEN st
    ELSE LET code == Head(codes)
             next == IF UseOverride(gmatch, code)
                     THEN AppendTo(st, code, gmatch.entry[code])
                     ELSE TranslateCell(st, i, base, code, outcomes[code])
         IN  CodesLoop(next, i, base, gmatch, Tail(codes), outcomes)

\* the body of: for t in texts, lines 138-157, for the i-th string, on
\* st = [results, lookups, mt_calls, raised]
TranslateOne(st, i, t, codes, glossary, scores, outcomes) ==
    IF ~should_translate(t) THEN PassThrough(st, t, codes)
    ELSE LET gmatch == lookup_glossary(t, glossary, Threshold, scores)
             looked == [st EXCEPT !.lookups =
                           Append(@, [i |-> i, text |-> t, gmatch |-> gmatch])]
         IN  CodesLoop(looked, i, t, gmatch, codes, outcomes)

\* results = {code: [] for code in targets}
EmptyResults(codes) == [code \in Range(codes) |-> <<>>]

-----------------------------------------------------------------------------
(* Bounded inputs *)

MaxNormLen == 4

NormChars == {"a", "A", "!", "_", " "}

RECURSIVE StringsUpTo(_, _)
StringsUpTo(chars, n) ==
    IF n = 0 THEN {<<>>}
    ELSE LET shorter == StringsUpTo(chars, n - 1)
         IN  shorter \cup {Append(s, c) : s \in {t \in shorter : Len(t) = n - 1}, c \in chars}

SpaceAt(s, i) == i \in 1..Len(s) /\ IsSpace(s[i])

MaxRows == 3

\* glossary rows: EN cell, ID cell, ZH cell (the other cells blank)
RowPool ==
    { GlossaryRow(<<"a", "p">>, <<"T1">>, <<>>),
      GlossaryRow(<<"A", "p", "!">>, <<"T2">>, <<"Z2">>),
      GlossaryRow(<<" ", "a", "p">>, <<"T3">>, <<"Z3">>),
      GlossaryRow(<<"p", "a", "y">>, <<>>, <<"Z4">>),
      GlossaryRow(<<"!">>, <<"T5">>, <<>>),
      GlossaryRow(<<" ">>, <<"T6">>, <<>>) }

RECURSIVE ListsUpTo(_, _)
ListsUpTo(pool, n) ==
    IF n = 0 THEN {<<>>}
    ELSE LET shorter == ListsUpTo(pool, n - 1)
         IN  shorter \cup {Append(s, x) : s \in {t \in shorter : Len(t) = n - 1}, x \in pool}

\* a CSV that cannot be read, and CSVs that lack required columns
RejectedFiles ==
    { [uploaded |-> TRUE, readable |-> FALSE, columns |-> {}, rows |-> <<>>],
      [uploaded |-> TRUE, readable |-> TRUE, columns |-> ExpectedColSet \ {"JA", "ZH"},
       rows |-> <<[c \in ExpectedColSet \ {"JA", "ZH"} |->
                     IF c = "EN" THEN <<"a", "p">> ELSE <<"T1">>]>>],
      [uploaded |-> TRUE, readable |-> TRUE, columns |-> {"en", "id"},
       rows |-> <<[c \in {"en", "id"} |-> <<"a", "p">>]>>] }

LookupFiles ==
    {NoFile} \cup RejectedFiles \cup {ReadableFile(rows) : rows \in ListsUpTo(RowPool, MaxRows)}

LookupQueries ==
    { <<"a", "p">>, <<"A", "p", "?">>, <<"a", "p", "y">>, <<"?">>, <<"p", "a", "y", " ">> }

MaxLines == 3

\* lines the OCR reader may return
OcrPool ==
    { <<"B", "o">>, <<" ", "B", "o", " ">>, <<"p", "a", "y">>, <<"a", "l">>, <<"a", "!">>,
      <<" ">>, <<>> }

MaxStrings == 2

\* strings handed to translate_text_list: "42", "A", " a ", "_1", "Ap!", "apy"
StringPool ==
    { <<"4", "2">>, <<"A">>, <<" ", "a", " ">>, <<"_", "1">>, <<"A", "p", "!">>,
      <<"a", "p", "y">> }

\* selections of the multiselect: distinct codes, in selection order
TargetLists ==
    {<<language_options[i]>> : i \in 1..Len(language_options)}
        \cup { <<"ZH", "ID">> }

\* glossaries the loader builds: none, and "ap" with an ID override only
\* beside "pay" with a ZH override only
GlossaryPool ==
    { GlossaryLoad(NoFile).map,
      GlossaryLoad(ReadableFile(<< GlossaryRow(<<"a", "p">>, <<"T1">>, <<>>),
                                   GlossaryRow(<<"p", "a", "y">>, <<>>, <<"Z4">>) >>)).map }

\* uploads for a run of the whole page: a rejected CSV, no CSV, and a CSV that
\* overrides "pay" in ZH only
PipelineFiles ==
    {NoFile} \cup RejectedFiles
        \cup { [uploaded |-> TRUE, readable |-> TRUE, columns |-> ExpectedColSet \ {"JA"},
               rows |-> <<[c \in ExpectedColSet \ {"JA"} |->
                             IF c = "EN" THEN <<"p", "a", "y">> ELSE <<"T7">>]>>],
              ReadableFile(<<GlossaryRow(<<"p", "a", "y">>, <<>>, <<"Z4">>)>>) }

PipelineTargets == { <<>>, <<"ID">>, <<"ZH", "ID">> }

\* what the OCR reader returns for the uploaded image
PipelineOcr ==
    { <<>>, << <<" ">> >>, << <<"p", "a", "y">>, <<"4", "2">>, <<"p", "a", "y">> >>,
      << <<"B", "o">>, <<"A">> >> }

\* the variables of a part of the program the behaviour does not exercise
GlossIdle == glossary_file = NoFile /\ glossary_map = <<>>

LookupIdle == lk_query = <<>> /\ lk_scores = <<>> /\ lk_result = None

CleanIdle == texts = <<>> /\ cleaned = <<>> /\ seen = {} /\ ci = 0

TransIdle ==
    /\ strings = <<>> /\ targets = <<>> /\ results = <<>> /\ ti = 0
    /\ lookups = <<>> /\ mt_calls = <<>> /\ raised = FALSE

PipeIdle == target_langs = <<>> /\ uploaded = FALSE /\ df = <<>> /\ storage = {}

NormIdle == nt_base = <<>> /\ nt_text = <<>> /\ nt_applied = FALSE

InsertAt(s, i, c) == SubSeq(s, 1, i - 1) \o <<c>> \o SubSeq(s, i, Len(s))
DeleteAt(s, i) == SubSeq(s, 1, i - 1) \o SubSeq(s, i + 1, Len(s))

-----------------------------------------------------------------------------
(* normalize_text applied to strings that differ only in case, punctuation *)
(* or the amount of whitespace                                             *)

InitNorm ==
    /\ mode = "normalize"
    /\ pc = "normalize"
    /\ ui = <<>>
    /\ GlossIdle
    /\ LookupIdle
    /\ CleanIdle
    /\ TransIdle
    /\ PipeIdle
    /\ nt_base \in StringsUpTo(NormChars, MaxNormLen)
    /\ nt_text = nt_base
    /\ nt_applied = FALSE

\* the same string with one letter in the other case
ChangeCase ==
    /\ \E i \in 1..Len(nt_text), c \in NormChars :
          /\ IsAlpha(c) /\ c # nt_text[i]
          /\ LowerChar(c) = LowerChar(nt_text[i])
          /\ nt_text' = [nt_text EXCEPT ![i] = c]
    /\ nt_applied' = FALSE
    /\ UNCHANGED <<mode, pc, ui, nt_base, glossVars, lookupVars, cleanVars, transVars, pipeVars>>

\* the same string with one punctuation character more
InsertPunctuation ==
    /\ Len(nt_text) < MaxNormLen
    /\ \E i \in 1..Len(nt_text) + 1, c \in NormChars :
          /\ ~IsWord(c) /\ ~IsSpace(c)
          /\ nt_text' = InsertAt(nt_text, i, c)
    /\ nt_applied' = FALSE
    /\ UNCHANGED <<mode, pc, ui, nt_base, glossVars, lookupVars, cleanVars, transVars, pipeVars>>

\* the same string with one punctuation character less
DeletePunctuation ==
    /\ \E i \in 1..Len(nt_text) :
          /\ ~IsWord(nt_text[i]) /\ ~IsSpace(nt_text[i])
          /\ nt_text' = DeleteAt(nt_text, i)
    /\ nt_applied' = FALSE
    /\ UNCHANGED <<mode, pc, ui, nt_base, glossVars, lookupVars, cleanVars, transVars, pipeVars>>

\* more whitespace at an end, or next to whitespace already there
InsertWhitespace ==
    /\ Len(nt_text) < MaxNormLen
    /\ \E i \in 1..Len(nt_text) + 1, c \in NormChars :
          /\ IsSpace(c)
          /\ \/ i = 1
             \/ i = Len(nt_text) + 1
             \/ SpaceAt(nt_text, i - 1)
             \/ SpaceAt(nt_text, i)
          /\ nt_text' = InsertAt(nt_text, i, c)
    /\ nt_applied' = FALSE
    /\ UNCHANGED <<mode, pc, ui, nt_base, glossVars, lookupVars, cleanVars, transVars, pipeVars>>

\* less whitespace at an end, or in a run of whitespace
DeleteWhitespace ==
    /\ \E i \in 1..Len(nt_text) :
          /\ IsSpace(nt_text[i])
          /\ \/ i = 1
             \/ i = Len(nt_text)
             \/ SpaceAt(nt_text, i - 1)
             \/ SpaceAt(nt_text, i + 1)
          /\ nt_text' = DeleteAt(nt_text, i)
    /\ nt_applied' = FALSE
    /\ UNCHANGED <<mode, pc, ui, nt_base, glossVars, lookupVars, cleanVars, transVars, pipeVars>>

\* text = normalize_text(text)
Normalize ==
    /\ ~nt_applied
    /\ nt_text' = normalize_text(nt_text)
    /\ nt_applied' = TRUE
    /\ UNCHANGED <<mode, pc, ui, nt_base, glossVars, lookupVars, cleanVars, transVars, pipeVars>>

NextNorm ==
    \/ ChangeCase
    \/ InsertPunctuation
    \/ DeletePunctuation
    \/ InsertWhitespace
    \/ DeleteWhitespace
    \/ Normalize

SpecNorm == InitNorm /\ [][NextNorm]_vars

\* C10: normalize_text is idempotent, and strings that differ only in letter
\* case, in punctuation characters (those outside \w and \s) or in the amount
\* of leading, trailing or internal whitespace normalize to the same result.
C10_NormalizeIdempotentInsensitive ==
    mode = "normalize" =>
        /\ normalize_text(normalize_text(nt_text)) = normalize_text(nt_text)
        /\ normalize_text(nt_text) = normalize_text(nt_base)
        /\ nt_applied => normalize_text(nt_text) = nt_text

\* "A_!" (as "Apply!") edited into " a_ " (as "  apply ")
C10_Witness ==
    /\ mode = "normalize"
    /\ nt_base = <<"A", "_", "!">>
    /\ nt_text = <<" ", "a", "_", " ">>
    /\ normalize_text(nt_text) = <<"a", "_">>

-----------------------------------------------------------------------------
(* Glossary loading followed by lookups *)

InitLookup ==
    /\ mode = "lookup"
    /\ pc = "glossary"
    /\ ui = <<>>
    /\ glossary_file \in LookupFiles
    /\ glossary_map = <<>>
    /\ LookupIdle
    /\ NormIdle
    /\ CleanIdle
    /\ PipeIdle
    /\ TransIdle
    /\ PipeIdle

\* lines 39-56: the glossary expander
LoadGlossary ==
    /\ pc = "glossary"
    /\ glossary_map' = GlossaryLoad(glossary_file).map
    /\ ui' = ui \o GlossaryLoad(glossary_file).shown
    /\ pc' = "helpers"
    /\ UNCHANGED <<mode, glossary_file, normVars, lookupVars, cleanVars, transVars, pipeVars>>

\* a call lookup_glossary(text, glossary_map)
Lookup ==
    /\ mode = "lookup"
    /\ pc = "helpers"
    /\ \E text \in LookupQueries :
          \E scores \in ScoreLists(text, glossary_map) :
             /\ lk_query' = text
             /\ lk_scores' = scores
             /\ lk_result' = lookup_glossary(text, glossary_map, Threshold, scores)
    /\ pc' = "looked"
    /\ UNCHANGED <<mode, ui, glossVars, normVars, cleanVars, transVars, pipeVars>>

NextLookup ==
    \/ LoadGlossary
    \/ Lookup

SpecLookup == InitLookup /\ [][NextLookup]_vars

\* C6: on a non-empty index a normalized exact match is returned whatever the
\* scorer would say; otherwise the best-scoring key's entry is returned if and
\* only if its score is at least 90; an empty index gives none, unscored.
C6_ExactThenFuzzy ==
    (mode = "lookup" /\ pc = "looked") =>
        LET nq == normalize_text(lk_query)
            exact == {i \in 1..Len(glossary_map) : normalize_text(glossary_map[i].k) = nq}
            index == NormMap(glossary_map)
        IN  IF glossary_map = <<>> THEN lk_result = None /\ lk_scores = <<>>
            ELSE IF exact # {}
            THEN /\ lk_scores = <<>>
                 /\ lk_result.found
                 /\ \E i \in exact : lk_result.entry = glossary_map[i].v
            ELSE /\ Len(lk_scores) = Len(index)
                 /\ LET top == CHOOSE x \in {lk_scores[i] : i \in 1..Len(index)} :
                                  \A i \in 1..Len(index) : lk_scores[i] <= x
                    IN  IF top >= 90
                        THEN /\ lk_result.found
                             /\ \E i \in 1..Len(index) :
                                   lk_scores[i] = top /\ lk_result.entry = index[i].v
                        ELSE lk_result = None

\* a fuzzy hit whose best score is exactly the threshold
C6_Witness ==
    /\ mode = "lookup" /\ pc = "looked"
    /\ lk_query = <<"a", "p", "y">>
    /\ Len(glossary_map) = 2
    /\ lk_scores = <<89, 90>>
    /\ lk_result.found

\* the rows of the file whose EN cell normalizes to the normalized text looked up
MatchingRows ==
    {i \in 1..Len(glossary_file.rows) :
        normalize_text(glossary_file.rows[i]["EN"]) = normalize_text(lk_query)}

\* C5: after the glossary is built there is at most one entry per normalized
\* English key, and a lookup whose normalized text equals the normalized EN
\* key of loaded rows returns the values of the last such row in file order.
C5_LastRowWins ==
    (mode = "lookup" /\ pc = "looked" /\ glossary_map # <<>>) =>
        /\ \A i, j \in 1..Len(NormMap(glossary_map)) :
              NormMap(glossary_map)[i].k = NormMap(glossary_map)[j].k => i = j
        /\ (normalize_text(lk_query) # <<>> /\ MatchingRows # {}) =>
              LET last == CHOOSE i \in MatchingRows : \A j \in MatchingRows : j <= i
              IN  lk_result = Some(glossary_file.rows[last])

-----------------------------------------------------------------------------
(* Extraction-time cleanup of the OCR lines *)

InitClean ==
    /\ mode = "clean"
    /\ pc = "cleanup"
    /\ ui = <<>>
    /\ texts \in ListsUpTo(OcrPool, MaxLines)
    /\ cleaned = <<>>
    /\ seen = {}
    /\ ci = 0
    /\ GlossIdle
    /\ LookupIdle
    /\ NormIdle
    /\ TransIdle
    /\ PipeIdle

\* one iteration of: for t in texts
CleanNext ==
    /\ pc = "cleanup"
    /\ ci < Len(texts)
    /\ LET st == CleanLine([cleaned |-> cleaned, seen |-> seen], texts[ci + 1])
       IN  cleaned' = st.cleaned /\ seen' = st.seen
    /\ ci' = ci + 1
    /\ UNCHANGED <<mode, pc, ui, texts, normVars, glossVars, lookupVars, transVars, pipeVars>>

\* return cleaned
CleanReturn ==
    /\ pc = "cleanup"
    /\ ci = Len(texts)
    /\ pc' = "cleaned"
    /\ UNCHANGED <<mode, ui, cleanVars, normVars, glossVars, lookupVars, transVars, pipeVars>>

NextClean ==
    \/ CleanNext
    \/ CleanReturn

SpecClean == InitClean /\ [][NextClean]_vars

\* a raw line stripped, then corrected ("l" read as "!")
CleanedLine(t) == [i \in 1..Len(Strip(t)) |-> IF Strip(t)[i] = "l" THEN "!" ELSE Strip(t)[i]]

\* where a cleaned string first occurs among the raw lines
FirstOccurrence(s) ==
    CHOOSE i \in 1..Len(texts) :
        /\ CleanedLine(texts[i]) = s
        /\ \A j \in 1..(i - 1) : CleanedLine(texts[j]) # s

\* C7: the cleaned list holds each distinct non-empty cleaned string (stripped,
\* then corrected) of the lines taken so far exactly once, in the order of its
\* first occurrence; raw lines are merged if and only if their cleaned
\* strings are equal.
C7_DedupFirstOccurrence ==
    mode = "clean" =>
        /\ {cleaned[k] : k \in 1..Len(cleaned)}
              = {CleanedLine(texts[i]) : i \in 1..ci} \ {<<>>}
        /\ \A a, b \in 1..Len(cleaned) : cleaned[a] = cleaned[b] => a = b
        /\ \A a, b \in 1..Len(cleaned) :
              a < b => FirstOccurrence(cleaned[a]) < FirstOccurrence(cleaned[b])
        /\ Cardinality({CleanedLine(texts[i]) : i \in 1..ci} \ {<<>>}) = Len(cleaned)

\* " Bo " stripped, and "al" and "a!" merged into one "a!"
C7_Witness ==
    /\ mode = "clean" /\ pc = "cleaned"
    /\ texts = << <<" ", "B", "o", " ">>, <<"a", "l">>, <<"a", "!">> >>
    /\ cleaned = << <<"B", "o">>, <<"a", "!">> >>

-----------------------------------------------------------------------------
(* translate_text_list *)

InitTranslate ==
    /\ mode = "translate"
    /\ pc = "translate"
    /\ ui = <<>>
    /\ glossary_file = NoFile
    /\ glossary_map \in GlossaryPool
    /\ strings \in ListsUpTo(StringPool, MaxStrings)
    /\ targets \in TargetLists
    /\ results = EmptyResults(targets)
    /\ ti = 0
    /\ lookups = <<>>
    /\ mt_calls = <<>>
    /\ raised = FALSE
    /\ LookupIdle
    /\ NormIdle
    /\ CleanIdle
    /\ PipeIdle

\* one iteration of: for t in texts
TranslateNext ==
    /\ pc = "translate"
    /\ ti < Len(strings)
    /\ \E scores \in ScoreLists(strings[ti + 1], glossary_map) :
          \E outcomes \in [Range(targets) -> MTOutcomes] :
             LET st == TranslateOne([results |-> results, lookups |-> lookups,
                                     mt_calls |-> mt_calls, raised |-> raised],
                                    ti + 1, strings[ti + 1], targets, glossary_map,
                                    scores, outcomes)
             IN  /\ results' = st.results
                 /\ lookups' = st.lookups
                 /\ mt_calls' = st.mt_calls
                 /\ raised' = st.raised
                 /\ pc' = IF st.raised THEN "raised" ELSE pc
    /\ ti' = ti + 1
    /\ UNCHANGED <<mode, ui, strings, targets, glossVars, lookupVars, normVars, cleanVars, pipeVars>>

\* return results
TranslateReturn ==
    /\ pc = "translate"
    /\ ti = Len(strings)
    /\ pc' = "translated"
    /\ UNCHANGED <<mode, ui, transVars, glossVars, lookupVars, normVars, cleanVars, pipeVars>>

NextTranslate ==
    \/ TranslateNext
    \/ TranslateReturn

SpecTranslate == InitTranslate /\ [][NextTranslate]_vars

\* noise as the noise filter's rules word it: a stripped length of at most
\* one, or no alphabetic character
IsNoise(s) == Len(Strip(s)) <= 1 \/ ~\E i \in 1..Len(s) : IsAlpha(s[i])

\* the translator code of each target code, as the target-code table lists them
TranslatorCode(code) ==
    [ID |-> "id", JA |-> "ja", KO |-> "ko", MS |-> "ms", TH |-> "th", VI |-> "vi",
     ZH |-> "zh-CN"][code]

\* the translation calls made for string j and one code
CallsFor(j, code) ==
    {k \in 1..Len(mt_calls) : mt_calls[k].i = j /\ mt_calls[k].code = code}

\* the glossary lookups made for string j
LookupsFor(j) == {k \in 1..Len(lookups) : lookups[k].i = j}

\* whether the lookup for string j gave an override for the code
Overridden(j, code) ==
    \E k \in LookupsFor(j) :
        lookups[k].gmatch.found /\ lookups[k].gmatch.entry[code] # <<>>

\* what an entry made from strings[j] for a code may be: the string itself, an
\* override of the glossary, its machine translation, or an error marker
ProducedFrom(j, code) ==
    {strings[j]}
        \cup {glossary_map[k].v[code] : k \in 1..Len(glossary_map)}
        \cup {<<"en", ">", TranslatorCode(code), ":">> \o strings[j]}
        \cup {<<"[Translation error: ", o.e, "]">> : o \in MTOutcomes}

\* C1: the result has exactly the requested codes as keys, every column has as
\* many entries as strings were processed (all N at return), and entry j was
\* produced from strings[j].
C1_Alignment ==
    mode = "translate" =>
        /\ DOMAIN results = Range(targets)
        /\ \A code \in Range(targets) :
              /\ Len(results[code]) = ti
              /\ \A j \in 1..Len(results[code]) :
                    j <= Len(strings) /\ results[code][j] \in ProducedFrom(j, code)
        /\ pc = "translated" => ti = Len(strings)

\* noise, a glossary override and a failed translation in one batch
C1_Witness ==
    /\ mode = "translate" /\ pc = "translated"
    /\ strings = << <<"4", "2">>, <<"A", "p", "!">> >>
    /\ targets = <<"ZH", "ID">>
    /\ results["ID"] = << <<"4", "2">>, <<"T1">> >>
    /\ results["ZH"] = << <<"4", "2">>, <<"[Translation error: ", "timed out", "]">> >>

\* C2: a failed translation call never raises out of translate_text_list; its
\* cell holds "[Translation error: <description>]", and every other cell is
\* what it is without the failure: the string itself for noise, the override,
\* or the translation.
C2_FailureIsLocal ==
    mode = "translate" =>
        /\ ~raised /\ pc # "raised"
        /\ \A j \in 1..ti : \A code \in Range(targets) :
              /\ Len(results[code]) >= j
              /\ LET failed == {k \in CallsFor(j, code) : ~mt_calls[k].ok}
                 IN  IF failed # {}
                     THEN \E k \in failed :
                            results[code][j] = <<"[Translation error: ", mt_calls[k].e, "]">>
                     ELSE results[code][j] =
                            IF IsNoise(strings[j]) THEN strings[j]
                            ELSE IF Overridden(j, code)
                            THEN lookups[CHOOSE k \in LookupsFor(j) : TRUE].gmatch.entry[code]
                            ELSE <<"en", ">", TranslatorCode(code), ":">> \o strings[j]
        /\ (pc = "translated" /\ \E k \in 1..Len(mt_calls) : ~mt_calls[k].ok) =>
              \A code \in Range(targets) : Len(results[code]) = Len(strings)

\* the first cell fails; the other code of that string and the next string
\* are resolved all the same
C2_Witness ==
    /\ mode = "translate" /\ pc = "translated"
    /\ strings = << <<"a", "p", "y">>, <<"A", "p", "!">> >>
    /\ targets = <<"ZH", "ID">>
    /\ lookups[1].gmatch = None
    /\ results["ZH"] = << <<"[Translation error: ", "timed out", "]">>,
                          <<"en", ">", "zh-CN", ":", "A", "p", "!">> >>
    /\ results["ID"] = << <<"en", ">", "id", ":", "a", "p", "y">>, <<"T1">> >>

\* C3: a string that is noise is put unchanged into every requested column at
\* its index, and neither lookup_glossary nor the translator is called for it.
C3_NoisePassThrough ==
    mode = "translate" =>
        \A j \in 1..ti :
            IsNoise(strings[j]) =>
                /\ \A code \in Range(targets) :
                      Len(results[code]) >= j /\ results[code][j] = strings[j]
                /\ LookupsFor(j) = {}
                /\ \A code \in Range(targets) : CallsFor(j, code) = {}

\* "A" and "42" passed through with a glossary loaded
C3_Witness ==
    /\ mode = "translate" /\ pc = "translated"
    /\ glossary_map # <<>>
    /\ strings = << <<"A">>, <<"4", "2">> >>
    /\ targets = <<"ZH", "ID">>
    /\ results["ID"] = << <<"A">>, <<"4", "2">> >>
    /\ results["ZH"] = << <<"A">>, <<"4", "2">> >>
    /\ lookups = <<>> /\ mt_calls = <<>>

\* C4: for a translatable string the glossary is looked up once, and per code:
\* a non-empty override is the cell and no translation call is made for it;
\* otherwise exactly one call is made, from "en" to the mapped code
\* (ID->id, JA->ja, KO->ko, MS->ms, TH->th, VI->vi, ZH->zh-CN).
C4_DecisionTable ==
    mode = "translate" =>
        \A j \in 1..ti :
            ~IsNoise(strings[j]) =>
                /\ Cardinality(LookupsFor(j)) = 1
                /\ \A code \in Range(targets) :
                      LET gmatch == lookups[CHOOSE k \in LookupsFor(j) : TRUE].gmatch
                      IN  IF gmatch.found /\ gmatch.entry[code] # <<>>
                          THEN /\ Len(results[code]) >= j
                               /\ results[code][j] = gmatch.entry[code]
                               /\ CallsFor(j, code) = {}
                          ELSE /\ Cardinality(CallsFor(j, code)) = 1
                               /\ \A k \in CallsFor(j, code) :
                                     /\ mt_calls[k].text = strings[j]
                                     /\ mt_calls[k].source = "en"
                                     /\ mt_calls[k].target = TranslatorCode(code)

\* "Ap!" hits the entry "ap": ID is its override, ZH (empty there) is translated
C4_Witness ==
    /\ mode = "translate" /\ pc = "translated"
    /\ strings = << <<"A", "p", "!">> >>
    /\ targets = <<"ZH", "ID">>
    /\ lookups[1].gmatch.found
    /\ results["ID"] = << <<"T1">> >>
    /\ Len(mt_calls) = 1
    /\ mt_calls[1].code = "ZH" /\ mt_calls[1].target = "zh-CN" /\ mt_calls[1].ok

-----------------------------------------------------------------------------
(* A run of the whole page: glossary expander, upload, OCR, translation,   *)
(* review and export                                                       *)

Init ==
    /\ mode = "page"
    /\ pc = "glossary"
    /\ ui = <<>>
    /\ glossary_file \in PipelineFiles
    /\ glossary_map = <<>>
    /\ target_langs \in PipelineTargets
    /\ uploaded \in BOOLEAN
    /\ df = <<>>
    /\ storage = {}
    /\ LookupIdle
    /\ NormIdle
    /\ CleanIdle
    /\ TransIdle

Shown(kind, text) == [kind |-> kind, text |-> text]

\* except Exception as e: st.error(f"Something went wrong: {e}")
Except(shown) ==
    /\ ui' = Append(shown, Shown("error", <<"Something went wrong: ", "e">>))
    /\ pc' = "failed"

\* else: st.info("Awaiting image upload...")
AwaitUpload ==
    /\ mode = "page" /\ pc = "helpers"
    /\ ~uploaded
    /\ ui' = Append(ui, Shown("info", <<"Awaiting image upload">>))
    /\ pc' = "done"
    /\ UNCHANGED <<mode, glossVars, lookupVars, normVars, cleanVars, transVars, pipeVars>>

\* ocr_extract_strings up to the cleanup loop: the image is decoded and
\* shown, the reader returns its lines; either may raise
OcrRead ==
    /\ mode = "page" /\ pc = "helpers"
    /\ uploaded
    /\ \E outcome \in {"decode fails", "reader fails", "read"} :
          CASE outcome = "decode fails" ->
                 Except(ui) /\ UNCHANGED texts
            [] outcome = "reader fails" ->
                 Except(Append(ui, Shown("image", <<"Uploaded Image">>))) /\ UNCHANGED texts
            [] outcome = "read" ->
                 /\ ui' = Append(ui, Shown("image", <<"Uploaded Image">>))
                 /\ texts' \in PipelineOcr
                 /\ pc' = "cleanup"
    /\ UNCHANGED <<mode, cleaned, seen, ci, glossVars, lookupVars, normVars, transVars,
                   pipeVars>>

\* if not strings: st.warning(...)
NoTextDetected ==
    /\ mode = "page" /\ pc = "cleaned"
    /\ cleaned = <<>>
    /\ strings' = cleaned
    /\ ui' = Append(ui, Shown("warning", <<"No text detected.">>))
    /\ pc' = "done"
    /\ UNCHANGED <<mode, targets, results, ti, lookups, mt_calls, raised, glossVars,
                   lookupVars, normVars, cleanVars, pipeVars>>

\* lines 199-206 and 210: the EN column, then the call of translate_text_list
\* when codes are selected
StartTable ==
    /\ mode = "page" /\ pc = "cleaned"
    /\ cleaned # <<>>
    /\ strings' = cleaned
    /\ df' = DictSet(<<>>, "EN", cleaned)
    /\ IF target_langs # <<>>
       THEN /\ ui' = ui \o << Shown("success", <<"Extracted ", Decimal(Len(cleaned)),
                                                 " unique text strings.">>),
                               Shown("subheader", <<"2) Translating">>) >>
            /\ targets' = target_langs
            /\ results' = EmptyResults(target_langs)
            /\ pc' = "translate"
       ELSE /\ ui' = ui \o << Shown("success", <<"Extracted ", Decimal(Len(cleaned)),
                                                 " unique text strings.">>),
                               Shown("info", <<"No target languages selected">>) >>
            /\ UNCHANGED <<targets, results>>
            /\ pc' = "review"
    /\ UNCHANGED <<mode, ti, lookups, mt_calls, raised, glossVars, lookupVars, normVars,
                   cleanVars, target_langs, uploaded, storage>>

\* for code in target_langs: df[code] = tdict[code]
RECURSIVE WithColumns(_, _, _)
WithColumns(table, codes, tdict) ==
    IF codes = <<>> THEN table
    ELSE WithColumns(DictSet(table, Head(codes), tdict[Head(codes)]), Tail(codes), tdict)

FillColumns ==
    /\ mode = "page" /\ pc = "translated"
    /\ df' = WithColumns(df, target_langs, results)
    /\ pc' = "review"
    /\ UNCHANGED <<mode, ui, glossVars, lookupVars, normVars, cleanVars, transVars,
                   target_langs, uploaded, storage>>

\* st.dataframe(df, ...)
ShowTable ==
    /\ mode = "page" /\ pc = "review"
    /\ \E ok \in BOOLEAN :
          IF ok
          THEN /\ ui' = ui \o << Shown("subheader", <<"3) Review & Export">>),
                                  Shown("dataframe", DictKeys(df)) >>
               /\ pc' = "csv"
          ELSE Except(Append(ui, Shown("subheader", <<"3) Review & Export">>)))
    /\ UNCHANGED <<mode, glossVars, lookupVars, normVars, cleanVars, transVars, pipeVars>>

\* lines 216-217: the CSV download
ExportCsv ==
    /\ mode = "page" /\ pc = "csv"
    /\ \E ok \in BOOLEAN :
          IF ok
          THEN /\ ui' = Append(ui, Shown("download", <<"translations.csv">>))
               /\ pc' = "xlsx"
          ELSE Except(ui)
    /\ UNCHANGED <<mode, glossVars, lookupVars, normVars, cleanVars, transVars, pipeVars>>

\* lines 220-226: the workbook download
ExportXlsx ==
    /\ mode = "page" /\ pc = "xlsx"
    /\ \E ok \in BOOLEAN :
          IF ok
          THEN /\ ui' = Append(ui, Shown("download", <<"translations.xlsx">>))
               /\ pc' = "save"
          ELSE Except(ui)
    /\ UNCHANGED <<mode, glossVars, lookupVars, normVars, cleanVars, transVars, pipeVars>>

\* lines 229-238 with the checkbox clear
SkipSave ==
    /\ mode = "page" /\ pc = "save"
    /\ ui' = Append(ui, Shown("caption", <<"Tip">>))
    /\ pc' = "done"
    /\ UNCHANGED <<mode, glossVars, lookupVars, normVars, cleanVars, transVars, pipeVars>>

\* lines 231-233 with the checkbox set: the CSV copy
SaveCsv ==
    /\ mode = "page" /\ pc = "save"
    /\ \E ok \in BOOLEAN :
          IF ok
          THEN /\ storage' = storage \cup {"translations_ts.csv"}
               /\ pc' = "save xlsx"
               /\ UNCHANGED ui
          ELSE Except(ui) /\ UNCHANGED storage
    /\ UNCHANGED <<mode, glossVars, lookupVars, normVars, cleanVars, transVars,
                   target_langs, uploaded, df>>

\* lines 234-238: the workbook copy
SaveXlsx ==
    /\ mode = "page" /\ pc = "save xlsx"
    /\ \E ok \in BOOLEAN :
          IF ok
          THEN /\ storage' = storage \cup {"translations_ts.xlsx"}
               /\ ui' = ui \o << Shown("success", <<"Saved to storage">>),
                                  Shown("caption", <<"Tip">>) >>
               /\ pc' = "done"
          ELSE Except(ui) /\ UNCHANGED storage
    /\ UNCHANGED <<mode, glossVars, lookupVars, normVars, cleanVars, transVars,
                   target_langs, uploaded, df>>

Next ==
    \/ LoadGlossary
    \/ AwaitUpload
    \/ OcrRead
    \/ CleanNext
    \/ CleanReturn
    \/ NoTextDetected
    \/ StartTable
    \/ TranslateNext
    \/ TranslateReturn
    \/ FillColumns
    \/ ShowTable
    \/ ExportCsv
    \/ ExportXlsx
    \/ SkipSave
    \/ SaveCsv
    \/ SaveXlsx

Spec == Init /\ [][Next]_vars

KindsShown == {ui[k].kind : k \in 1..Len(ui)}

\* C8: a run that ends in the generic failure message has shown no result
\* table, offered no download and written no file to the storage directory.
C8_NoPartialOutput ==
    (mode = "page" /\ pc = "failed") =>
        /\ "dataframe" \notin KindsShown
        /\ "download" \notin KindsShown
        /\ storage = {}

\* the uploaded glossary cannot be read, or lacks a required column
Rejected ==
    /\ glossary_file.uploaded
    /\ ~glossary_file.readable \/ ~(ExpectedColSet \subseteq glossary_file.columns)

\* C9: a rejected glossary file aborts glossary loading only: one error is
\* shown, naming exactly the missing columns when columns are missing; the
\* glossary index stays empty; the run goes on, and every translatable cell
\* is a machine translation or its error marker, none an override.
C9_RejectedGlossary ==
    (mode = "page" /\ pc # "glossary" /\ Rejected) =>
        /\ glossary_map = <<>>
        /\ Len(ui) >= 1 /\ ui[1].kind = "error"
        /\ glossary_file.readable =>
              \A c \in ExpectedColSet :
                  c \in Range(ui[1].text) <=> c \notin glossary_file.columns
        /\ pc = "failed" => Len(ui) >= 2
        /\ \A k \in 1..Len(lookups) : ~lookups[k].gmatch.found
        /\ \A code \in Range(targets) : \A j \in 1..ti :
              ~IsNoise(strings[j]) =>
                  /\ Len(results[code]) >= j
                  /\ results[code][j] \in
                        {<<"en", ">", TranslatorCode(code), ":">> \o strings[j]}
                            \cup {<<"[Translation error: ", o.e, "]">> : o \in MTOutcomes}
        /\ pc \in {"translated", "review", "csv", "xlsx", "save", "save xlsx", "done"} =>
              \A code \in Range(targets) : Len(results[code]) = Len(strings)

\* a CSV lacking the JA column is rejected, and the run still translates "pay"
\* by machine and ends with its table shown
C9_Witness ==
    /\ mode = "page" /\ pc = "done"
    /\ glossary_file.uploaded /\ glossary_file.readable
    /\ glossary_file.columns = ExpectedColSet \ {"JA"}
    /\ ui[1].text = <<"Glossary missing columns: ", "JA">>
    /\ target_langs = <<"ZH", "ID">>
    /\ strings = << <<"p", "a", "y">>, <<"4", "2">> >>
    /\ results["ZH"][1] = <<"en", ">", "zh-CN", ":", "p", "a", "y">>
    /\ "dataframe" \in KindsShown

====
